---- MODULE Spec2Model ----
(***************************************************************************)
(* A model of the datadocs geo extension's adapter code and of the parts   *)
(* of the vendored liblwgeom / GEOS libraries it relies on:                *)
(*   - BaseReader            (file_reader.cpp)                             *)
(*   - OverlayOp              (geos/operation/overlay/OverlayOp.cpp)       *)
(*   - LWGEOM_in / asBinary  (postgis/lwgeom_inout.cpp)                    *)
(*   - stringbuffer           (liblwgeom/stringbuffer.cpp)                 *)
(*   - lwcompound_add_lwgeom (liblwgeom/lwcompound.cpp)                    *)
(* Each subsystem has its own variables and its own specification; the     *)
(* variables of the other subsystems stay at their initial values.         *)
(***************************************************************************)
EXTENDS Integers, Sequences, FiniteSets, TLC

VARIABLES
    \* ---- BaseReader ----
    file,          \* the bytes the underlying file yields, in order
    filePos,       \* number of bytes do_read has produced so far
    readErrors,    \* number of do_read calls that returned a negative value
    m_buffer,      \* BaseReader::m_buffer (buf_size bytes)
    m_read_pos,    \* offset of m_read_pos from m_buffer
    m_read_end,    \* offset of m_read_end from m_buffer
    m_cnt_read,    \* BaseReader::m_cnt_read
    delivered,     \* history: bytes handed to the caller, in call order
    rd_last,       \* history: the last call and what it returned
    \* ---- OverlayOp::isResultOfOp ----
    ir_call,       \* the last isResultOfOp call: which overload and its arguments
    ir_ret,        \* what that call returned
    \* ---- OverlayOp::computeOverlay ----
    ov_pc,         \* position of the thread inside getResultGeometry/computeOverlay
    ov_opCode,     \* the opCode argument
    edgeList,      \* OverlayOp::edgeList (the edges, in insertion order)
    dupEdges,      \* OverlayOp::dupEdges
    graphEdges,    \* the edges added to OverlayOp::graph
    ov_gv,         \* the polygons PolygonBuilder::getPolygons returned
    ov_i,          \* loop index of the copy into resultPolyList
    resultPolyList,
    resultLineList,
    resultPointList,
    resultGeom,    \* OverlayOp::resultGeom
    ov_exc,        \* the exception propagating out of getResultGeometry, if any
    ov_hist,       \* history: what ran and what the coverage callbacks read
    \* ---- LWGEOM_in ----
    lw_in,         \* the last LWGEOM_in call: its input and what it did
    \* ---- stringbuffer_t ----
    sb_str,        \* the memory at str_start: capacity characters
    sb_end,        \* str_end - str_start
    sb_capacity,   \* stringbuffer_t::capacity
    sb_last,       \* history: the last stringbuffer_aprintf call
    \* ---- LWCOMPOUND ----
    lc_geoms,      \* the components (geoms[0..ngeoms-1]) of the compound
    lc_last,       \* history: the last lwcompound_add_lwgeom call
    \* ---- LWGEOM_asBinary ----
    ab_call,       \* the last LWGEOM_asBinary call: its text and the variant used
    \* ---- OverlayOp::insertUniqueEdge ----
    ue_env,        \* the env argument of insertUniqueEdges (null or an envelope)
    ue_hist,       \* history: the edges passed in so far and the last call
    \* ---- OverlayOp::findResultAreaEdges / cancelDuplicateResultEdges ----
    gr_ee,         \* graph.getEdgeEnds(): the directed edges, in vector order
    gr_opCode,     \* the opCode argument of findResultAreaEdges
    gr_pc,         \* which of the two loops is running
    gr_i,          \* the loop index i
    gr_hist        \* history: the flags when the running loop started

readerVars == <<file, filePos, readErrors, m_buffer, m_read_pos, m_read_end,
                m_cnt_read, delivered, rd_last>>

irVars == <<ir_call, ir_ret>>

ovVars == <<ov_pc, ov_opCode, edgeList, dupEdges, graphEdges, ov_gv, ov_i,
            resultPolyList, resultLineList, resultPointList, resultGeom, ov_exc, ov_hist>>

inVars == <<lw_in>>

sbVars == <<sb_str, sb_end, sb_capacity, sb_last>>

lcVars == <<lc_geoms, lc_last>>

abVars == <<ab_call>>

ueVars == <<ue_env, ue_hist>>

grVars == <<gr_ee, gr_opCode, gr_pc, gr_i, gr_hist>>

vars == <<readerVars, irVars, ovVars, inVars, sbVars, lcVars, abVars, ueVars, grVars>>

notReader == <<irVars, ovVars, inVars, sbVars, lcVars, abVars, ueVars, grVars>>

notIr == <<readerVars, ovVars, inVars, sbVars, lcVars, abVars, ueVars, grVars>>

notOv == <<readerVars, irVars, inVars, sbVars, lcVars, abVars, ueVars, grVars>>

notIn == <<readerVars, irVars, ovVars, sbVars, lcVars, abVars, ueVars, grVars>>

notSb == <<readerVars, irVars, ovVars, inVars, lcVars, abVars, ueVars, grVars>>

notLc == <<readerVars, irVars, ovVars, inVars, sbVars, abVars, ueVars, grVars>>

notAb == <<readerVars, irVars, ovVars, inVars, sbVars, lcVars, ueVars, grVars>>

\* insertUniqueEdge works on edgeList and dupEdges, which are among ovVars
notUe == <<readerVars, irVars, inVars, sbVars, lcVars, abVars, grVars>>

notGr == <<readerVars, irVars, ovVars, inVars, sbVars, lcVars, abVars, ueVars>>

----------------------------------------------------------------------------
(* Generic helpers *)

Min(a, b) == IF a <= b THEN a ELSE b

Max(a, b) == IF a >= b THEN a ELSE b

\* All sequences over S of length 0..n
SeqsUpTo(S, n) == UNION {[1..k -> S] : k \in 0..n}

IsPrefix(s, t) == Len(s) <= Len(t) /\ SubSeq(t, 1, Len(s)) = s

----------------------------------------------------------------------------
(* BaseReader *)

\* Bounds of the reader model
MaxFile == 4

BufSize == 2

MaxReadSize == 3

MaxErrors == 1

Bytes == {"a", "b"}

\* The outcomes of one do_read(buffer, size) call: a short or full read of the
\* next bytes of the file (0 bytes only at end of file or for size 0), or an
\* error (a negative return value) that leaves the file position unchanged.
do_read(size) ==
    LET remaining == Len(file) - filePos
        lo == IF size > 0 /\ remaining > 0 THEN 1 ELSE 0
    IN  {[ret |-> n, data |-> SubSeq(file, filePos + 1, filePos + n)] :
            n \in lo..Min(size, remaining)}
        \cup (IF readErrors < MaxErrors THEN {[ret |-> -1, data |-> <<>>]} ELSE {})

\* The file-side effect of a do_read outcome
FileAfter(o) ==
    /\ filePos' = filePos + Max(o.ret, 0)
    /\ readErrors' = readErrors + (IF o.ret < 0 THEN 1 ELSE 0)
    /\ file' = file

\* dst with the bytes of data stored from its first element on
StoreAt(dst, data) ==
    [i \in 1..Len(dst) |-> IF i <= Len(data) THEN data[i] ELSE dst[i]]

\* BaseReader::underflow with do_read's outcome o (o is ignored when the
\* buffer still holds bytes): the reader's fields afterwards and the result.
underflow(o) ==
    IF m_read_pos >= m_read_end
    THEN IF o.ret <= 0
         THEN [ok |-> FALSE, called |-> TRUE, buf |-> m_buffer, pos |-> m_read_pos,
               end |-> m_read_end, cnt |-> m_cnt_read]
         ELSE [ok |-> TRUE, called |-> TRUE, buf |-> StoreAt(m_buffer, o.data),
               pos |-> 0, end |-> o.ret, cnt |-> m_cnt_read + o.ret]
    ELSE [ok |-> TRUE, called |-> FALSE, buf |-> m_buffer, pos |-> m_read_pos,
          end |-> m_read_end, cnt |-> m_cnt_read]

\* The do_read outcomes underflow can see: none is drawn when it does not read
UnderflowOutcomes ==
    IF m_read_pos >= m_read_end THEN do_read(BufSize) ELSE {[ret |-> 0, data |-> <<>>]}

Last(op, u, o, ok) ==
    [op |-> op, ok |-> ok, wasEmpty |-> (m_read_pos >= m_read_end),
     called |-> u.called, sz |-> IF u.called THEN o.ret ELSE 0]

next_char ==
    \E o \in UnderflowOutcomes :
        LET u == underflow(o) IN
        /\ IF u.called THEN FileAfter(o) ELSE UNCHANGED <<file, filePos, readErrors>>
        /\ m_buffer' = u.buf
        /\ m_read_end' = u.end
        /\ m_cnt_read' = u.cnt
        /\ IF u.ok
           THEN /\ m_read_pos' = u.pos + 1
                /\ delivered' = Append(delivered, u.buf[u.pos + 1])
           ELSE /\ m_read_pos' = u.pos
                /\ delivered' = delivered
        /\ rd_last' = Last("next_char", u, o, u.ok)
        /\ UNCHANGED notReader

peek ==
    \E o \in UnderflowOutcomes :
        LET u == underflow(o) IN
        /\ IF u.called THEN FileAfter(o) ELSE UNCHANGED <<file, filePos, readErrors>>
        /\ m_buffer' = u.buf
        /\ m_read_end' = u.end
        /\ m_cnt_read' = u.cnt
        /\ m_read_pos' = u.pos
        /\ delivered' = delivered
        /\ rd_last' = Last("peek", u, o, u.ok)
        /\ UNCHANGED notReader

check_next_char ==
    \E c \in Bytes, o \in UnderflowOutcomes :
        LET u == underflow(o)
            hit == u.ok /\ u.buf[u.pos + 1] = c
        IN
        /\ IF u.called THEN FileAfter(o) ELSE UNCHANGED <<file, filePos, readErrors>>
        /\ m_buffer' = u.buf
        /\ m_read_end' = u.end
        /\ m_cnt_read' = u.cnt
        /\ IF hit
           THEN /\ m_read_pos' = u.pos + 1
                /\ delivered' = Append(delivered, c)
           ELSE /\ m_read_pos' = u.pos
                /\ delivered' = delivered
        /\ rd_last' = Last("check_next_char", u, o, hit)
        /\ UNCHANGED notReader

\* BaseReader::read(buffer, size): the caller is handed the first `return
\* value' bytes of its buffer.
read ==
    \E size \in 0..MaxReadSize :
        LET in_buffer == m_read_end - m_read_pos
            from_buffer == IF in_buffer > 0 THEN Min(size, in_buffer) ELSE 0
            copied == SubSeq(m_buffer, m_read_pos + 1, m_read_pos + from_buffer)
        IN
        \E o \in do_read(size - from_buffer) :
            /\ FileAfter(o)
            /\ m_read_pos' = m_read_pos + from_buffer
            /\ UNCHANGED <<m_buffer, m_read_end>>
            /\ IF o.ret < 0
               THEN /\ m_cnt_read' = m_cnt_read
                    /\ delivered' = delivered
               ELSE /\ m_cnt_read' = m_cnt_read + o.ret
                    /\ delivered' = delivered \o copied \o o.data
            /\ rd_last' = [op |-> "read", ok |-> (o.ret >= 0),
                           wasEmpty |-> (in_buffer <= 0), called |-> TRUE, sz |-> o.ret]
            /\ UNCHANGED notReader

\* The reader right after open(): an empty buffer over a file of any content
\* (m_buffer is not initialised; its bytes are never read before underflow
\* has stored into them)
ReaderOpened ==
    /\ file \in SeqsUpTo(Bytes, MaxFile)
    /\ filePos = 0
    /\ readErrors = 0
    /\ m_buffer = [i \in 1..BufSize |-> "a"]
    /\ m_read_pos = BufSize
    /\ m_read_end = BufSize
    /\ m_cnt_read = 0
    /\ delivered = <<>>
    /\ rd_last = [op |-> "open", ok |-> TRUE, wasEmpty |-> TRUE, called |-> FALSE, sz |-> 0]

\* A reader that is never opened
ReaderIdle ==
    /\ file = <<>>
    /\ filePos = 0
    /\ readErrors = 0
    /\ m_buffer = [i \in 1..BufSize |-> "a"]
    /\ m_read_pos = BufSize
    /\ m_read_end = BufSize
    /\ m_cnt_read = 0
    /\ delivered = <<>>
    /\ rd_last = [op |-> "open", ok |-> TRUE, wasEmpty |-> TRUE, called |-> FALSE, sz |-> 0]

NextReader ==
    \/ next_char
    \/ peek
    \/ check_next_char
    \/ read

----------------------------------------------------------------------------
(* OverlayOp::isResultOfOp *)

\* geom::Location
Locations == {"INTERIOR", "BOUNDARY", "EXTERIOR", "NONE"}

\* OverlayOp::OpCode
OpCodes == {"opINTERSECTION", "opUNION", "opDIFFERENCE", "opSYMDIFFERENCE"}

\* geomgraph::Label: for each of the two geometries a TopologyLocation holding
\* the ON, LEFT and RIGHT locations
Labels == [0..1 -> [on : Locations, left : {"NONE", "INTERIOR"}, right : {"NONE", "EXTERIOR"}]]

\* Label::getLocation(geomIndex): the ON location
getLocation(label, geomIndex) == label[geomIndex].on

\* Mutant of isResultOfOp: BOUNDARY is not treated as INTERIOR
isResultOfOp_boundaryKept(loc0, loc1, opCode) ==
    CASE opCode = "opINTERSECTION" -> loc0 = "INTERIOR" /\ loc1 = "INTERIOR"
      [] opCode = "opUNION" -> loc0 = "INTERIOR" \/ loc1 = "INTERIOR"
      [] opCode = "opDIFFERENCE" -> loc0 = "INTERIOR" /\ loc1 # "INTERIOR"
      [] opCode = "opSYMDIFFERENCE" ->
            \/ (loc0 = "INTERIOR" /\ loc1 # "INTERIOR")
            \/ (loc0 # "INTERIOR" /\ loc1 = "INTERIOR")
      [] OTHER -> FALSE

\* OverlayOp::isResultOfOp(Location, Location, OpCode)
isResultOfOp(loc0, loc1, opCode) ==
    LET l0 == IF loc0 = "BOUNDARY" THEN "INTERIOR" ELSE loc0
        l1 == IF loc1 = "BOUNDARY" THEN "INTERIOR" ELSE loc1
    IN  CASE opCode = "opINTERSECTION" -> l0 = "INTERIOR" /\ l1 = "INTERIOR"
          [] opCode = "opUNION" -> l0 = "INTERIOR" \/ l1 = "INTERIOR"
          [] opCode = "opDIFFERENCE" -> l0 = "INTERIOR" /\ l1 # "INTERIOR"
          [] opCode = "opSYMDIFFERENCE" ->
                \/ (l0 = "INTERIOR" /\ l1 # "INTERIOR")
                \/ (l0 # "INTERIOR" /\ l1 = "INTERIOR")
          [] OTHER -> FALSE

\* OverlayOp::isResultOfOp(const Label &, OpCode)
isResultOfOpLabel(label, opCode) ==
    LET loc0 == getLocation(label, 0)
        loc1 == getLocation(label, 1)
    IN  isResultOfOp(loc0, loc1, opCode)

CallIsResultOfOp ==
    \E loc0 \in Locations, loc1 \in Locations, opCode \in OpCodes :
        /\ ir_call.overload = "none"
        /\ ir_call' = [overload |-> "locations", loc0 |-> loc0, loc1 |-> loc1,
                       opCode |-> opCode]
        /\ ir_ret' = isResultOfOp(loc0, loc1, opCode)
        /\ UNCHANGED notIr

CallIsResultOfOpLabel ==
    \E label \in Labels, opCode \in OpCodes :
        /\ ir_call.overload = "none"
        /\ ir_call' = [overload |-> "label", label |-> label, opCode |-> opCode]
        /\ ir_ret' = isResultOfOpLabel(label, opCode)
        /\ UNCHANGED notIr

IdleIr ==
    /\ ir_call = [overload |-> "none"]
    /\ ir_ret = FALSE

NextIr ==
    \/ CallIsResultOfOp
    \/ CallIsResultOfOpLabel

----------------------------------------------------------------------------
(* OverlayOp::getResultGeometry / computeOverlay *)

\* Bounds of the overlay model
MaxEdges == 2

MaxResult == 2

\* The coordinate sequences of the noded edges of the two inputs, over three
\* points on a line
EdgeSet == {<<1, 2>>, <<2, 1>>, <<2, 3>>}

Reverse(s) == [i \in 1..Len(s) |-> s[Len(s) + 1 - i]]

\* geomgraph::Position: ON = 0, LEFT = 1, RIGHT = 2
Positions == {"ON", "LEFT", "RIGHT"}

PositionIndex(posIndex) ==
    CASE posIndex = "ON" -> 0 [] posIndex = "LEFT" -> 1 [] posIndex = "RIGHT" -> 2

\* TopologyLocation(on): a line location, locationSize 1
TopologyLocation1(on) ==
    [on |-> on, left |-> "NONE", right |-> "NONE", locationSize |-> 1]

\* TopologyLocation(on, left, right): an area location, locationSize 3
TopologyLocation3(on, left, right) ==
    [on |-> on, left |-> left, right |-> right, locationSize |-> 3]

\* TopologyLocation::get(posIndex): NONE beyond locationSize
TopologyLocation_get(tl, posIndex) ==
    IF PositionIndex(posIndex) < tl.locationSize
    THEN CASE posIndex = "ON" -> tl.on
           [] posIndex = "LEFT" -> tl.left
           [] posIndex = "RIGHT" -> tl.right
    ELSE "NONE"

\* TopologyLocation::isArea
TopologyLocation_isArea(tl) == tl.locationSize > 1

\* TopologyLocation::flip: swaps LEFT and RIGHT of an area location
TopologyLocation_flip(tl) ==
    IF tl.locationSize <= 1
    THEN tl
    ELSE [tl EXCEPT !.left = tl.right, !.right = tl.left]

\* TopologyLocation::merge(gl): the destination grows to an area location
\* when gl is one, then every NONE position takes the location gl holds there
TopologyLocation_merge(tl, gl) ==
    LET grown == IF gl.locationSize > tl.locationSize
                 THEN [tl EXCEPT !.locationSize = 3, !.left = "NONE", !.right = "NONE"]
                 ELSE tl
        take(posIndex, cur, src) ==
            IF /\ PositionIndex(posIndex) < grown.locationSize
               /\ cur = "NONE"
               /\ PositionIndex(posIndex) < gl.locationSize
            THEN src
            ELSE cur
    IN  [grown EXCEPT !.on = take("ON", grown.on, gl.on),
                      !.left = take("LEFT", grown.left, gl.left),
                      !.right = take("RIGHT", grown.right, gl.right)]

\* Label(geomIndex, onLoc): the label of a line edge of one input
LabelLine(geomIndex, onLoc) ==
    [i \in 0..1 |-> IF i = geomIndex
                    THEN TopologyLocation1(onLoc)
                    ELSE TopologyLocation1("NONE")]

\* Label(geomIndex, onLoc, leftLoc, rightLoc): the label of an area edge of
\* one input
LabelArea(geomIndex, onLoc, leftLoc, rightLoc) ==
    [i \in 0..1 |-> IF i = geomIndex
                    THEN TopologyLocation3(onLoc, leftLoc, rightLoc)
                    ELSE TopologyLocation3("NONE", "NONE", "NONE")]

\* Label::getLocation(geomIndex, posIndex)
Label_getLocation(label, geomIndex, posIndex) ==
    TopologyLocation_get(label[geomIndex], posIndex)

\* Label::isArea()
Label_isArea(label) ==
    TopologyLocation_isArea(label[0]) \/ TopologyLocation_isArea(label[1])

\* Label::isArea(geomIndex)
Label_isAreaAt(label, geomIndex) == TopologyLocation_isArea(label[geomIndex])

\* Label::flip
Label_flip(label) == [i \in 0..1 |-> TopologyLocation_flip(label[i])]

\* Label::merge(lbl)
Label_merge(label, lbl) == [i \in 0..1 |-> TopologyLocation_merge(label[i], lbl[i])]

\* Depth::NULL_VALUE
NULL_VALUE == -1

\* A new Depth: every entry is NULL_VALUE
NullDepth == [i \in 0..1 |-> [j \in 0..2 |-> NULL_VALUE]]

\* Depth::depthAtLocation
depthAtLocation(loc) ==
    CASE loc = "EXTERIOR" -> 0
      [] loc = "INTERIOR" -> 1
      [] OTHER -> NULL_VALUE

\* Depth::isNull()
Depth_isNull(depth) == \A i \in 0..1 : \A j \in 0..2 : depth[i][j] = NULL_VALUE

\* Depth::add(lbl): the LEFT and RIGHT locations of both geometries that are
\* EXTERIOR or INTERIOR set a null entry and are added to any other
Depth_add(depth, lbl) ==
    [i \in 0..1 |->
       [j \in 0..2 |->
          LET loc == IF j = 1 THEN Label_getLocation(lbl, i, "LEFT")
                     ELSE Label_getLocation(lbl, i, "RIGHT")
          IN  IF j >= 1 /\ loc \in {"EXTERIOR", "INTERIOR"}
              THEN IF depth[i][j] = NULL_VALUE
                   THEN depthAtLocation(loc)
                   ELSE depth[i][j] + depthAtLocation(loc)
              ELSE depth[i][j]]]

\* A geomgraph::Edge object: id stands for its address, pts for its
\* coordinates; a new edge has a null depth
Edge(id, pts, label) == [id |-> id, pts |-> pts, label |-> label, depth |-> NullDepth]

\* Edge::isPointwiseEqual
isPointwiseEqual(e1, e2) == e1.pts = e2.pts

\* EdgeList::findEqualEdge: the index of the edge with the same coordinates,
\* forward or reversed; 0 when there is none
findEqualEdge(el, e) ==
    LET hits == {i \in 1..Len(el) : el[i].pts = e.pts \/ el[i].pts = Reverse(e.pts)}
    IN  IF hits = {} THEN 0 ELSE CHOOSE i \in hits : \A j \in hits : i <= j

\* Mutant of insertUniqueEdge: the label of a reversed duplicate is merged
\* without being flipped
insertUniqueEdge_noFlip(el, dup, e) ==
    LET k == findEqualEdge(el, e)
    IN  IF k # 0
        THEN LET existingEdge == el[k]
                 existingLabel == existingEdge.label
                 labelToMerge == e.label
                 depth0 == IF Depth_isNull(existingEdge.depth)
                           THEN Depth_add(existingEdge.depth, existingLabel)
                           ELSE existingEdge.depth
                 depth1 == Depth_add(depth0, labelToMerge)
                 merged == Label_merge(existingLabel, labelToMerge)
             IN  [el |-> [el EXCEPT ![k] = [@ EXCEPT !.label = merged, !.depth = depth1]],
                  dup |-> Append(dup, e)]
        ELSE [el |-> Append(el, e), dup |-> dup]

\* OverlayOp::insertUniqueEdge on the lists el (edgeList) and dup (dupEdges)
insertUniqueEdge(el, dup, e) ==
    LET k == findEqualEdge(el, e)
    IN  IF k # 0
        THEN LET existingEdge == el[k]
                 existingLabel == existingEdge.label
                 labelToMerge == IF ~isPointwiseEqual(existingEdge, e)
                                 THEN Label_flip(e.label)
                                 ELSE e.label
                 depth0 == IF Depth_isNull(existingEdge.depth)
                           THEN Depth_add(existingEdge.depth, existingLabel)
                           ELSE existingEdge.depth
                 depth1 == Depth_add(depth0, labelToMerge)
                 merged == Label_merge(existingLabel, labelToMerge)
             IN  [el |-> [el EXCEPT ![k] = [@ EXCEPT !.label = merged, !.depth = depth1]],
                  dup |-> Append(dup, e)]
        ELSE [el |-> Append(el, e), dup |-> dup]

\* geom::Envelope over the points of the line: <<min, max>>; a null pointer
\* is the empty tuple
NullEnv == <<>>

\* Edge::getEnvelope
getEnvelope(e) ==
    <<CHOOSE x \in {e.pts[i] : i \in 1..Len(e.pts)} :
          \A i \in 1..Len(e.pts) : x <= e.pts[i],
      CHOOSE x \in {e.pts[i] : i \in 1..Len(e.pts)} :
          \A i \in 1..Len(e.pts) : x >= e.pts[i]>>

\* Envelope::intersects(const Envelope *)
intersects(env, other) == env[1] <= other[2] /\ other[1] <= env[2]

\* OverlayOp::insertUniqueEdges: an edge whose envelope misses a non-null env
\* goes to dupEdges as it is
RECURSIVE insertUniqueEdges(_, _, _, _)
insertUniqueEdges(el, dup, edges, env) ==
    IF edges = <<>>
    THEN [el |-> el, dup |-> dup]
    ELSE LET e == Head(edges)
             r == IF env # NullEnv /\ ~intersects(env, getEnvelope(e))
                  THEN [el |-> el, dup |-> Append(dup, e)]
                  ELSE insertUniqueEdge(el, dup, e)
         IN  insertUniqueEdges(r.el, r.dup, Tail(edges), env)

\* The envelopes computeOverlay passes when it passes one
Envelopes == {<<1, 1>>, <<3, 3>>}

\* The split edges of the two inputs as Edge objects: the first comes from
\* arg[0], the others from arg[1], all of them line edges
SplitEdges(ptsSeq) ==
    [i \in 1..Len(ptsSeq) |->
        Edge(i, ptsSeq[i], LabelLine(IF i = 1 THEN 0 ELSE 1, "INTERIOR"))]

\* A std::vector<T*>* member: null, or a vector of element names
NullList == [isNull |-> TRUE, elems |-> <<>>]

Vec(elems) == [isNull |-> FALSE, elems |-> elems]

\* The n geometries of one kind a builder creates, in creation order
Created(kind, n) == [i \in 1..n |-> <<kind, i>>]

NullElem == <<"null", 0>>

NoExc == [type |-> "none", what |-> ""]

TopologyException(what) == [type |-> "TopologyException", what |-> what]

\* Dimension::DimensionType of the argument geometries
Dimensions == {-1, 0, 1, 2}

\* OverlayOp::resultDimension
resultDimension(overlayOpCode, dim0, dim1) ==
    CASE overlayOpCode = "opINTERSECTION" -> Min(dim0, dim1)
      [] overlayOpCode = "opUNION" -> Max(dim0, dim1)
      [] overlayOpCode = "opDIFFERENCE" -> dim0
      [] overlayOpCode = "opSYMDIFFERENCE" -> Max(dim0, dim1)
      [] OTHER -> -1

\* OverlayOp::createEmptyResult
createEmptyResult(overlayOpCode, dim0, dim1) ==
    LET d == resultDimension(overlayOpCode, dim0, dim1)
    IN  [kind |-> "empty",
         type |-> CASE d = 0 -> "Point"
                    [] d = 1 -> "LineString"
                    [] d = 2 -> "Polygon"
                    [] OTHER -> "GeometryCollection",
         geomList |-> <<>>]

\* Mutant of computeGeometry: the three lists are inserted in the order A, L, P
computeGeometry_ALP(nResultPointList, nResultLineList, nResultPolyList, opCode, dim0, dim1) ==
    LET g3 == nResultPolyList.elems \o nResultLineList.elems \o nResultPointList.elems
    IN  IF g3 = <<>>
        THEN createEmptyResult(opCode, dim0, dim1)
        ELSE [kind |-> "built", type |-> "buildGeometry", geomList |-> g3]

\* OverlayOp::computeGeometry: the list handed to GeometryFactory::buildGeometry
\* is filled by three insert-at-end calls
computeGeometry(nResultPointList, nResultLineList, nResultPolyList, opCode, dim0, dim1) ==
    LET g0 == <<>>
        g1 == g0 \o nResultPointList.elems
        g2 == g1 \o nResultLineList.elems
        g3 == g2 \o nResultPolyList.elems
    IN  IF g3 = <<>>
        THEN createEmptyResult(opCode, dim0, dim1)
        ELSE [kind |-> "built", type |-> "buildGeometry", geomList |-> g3]

NullGeom == [kind |-> "null", type |-> "", geomList |-> <<>>]

\* Lines 181-238: the envelope, copyPoints, the noding of the inputs and the
\* insertion of the split edges into edgeList.  The split edges drawn here are
\* line edges, whose depths stay null, so computeLabelsFromDepths and
\* replaceCollapsedEdges leave them as they are
computeOverlay_nodeEdges ==
    /\ ov_pc = "start"
    /\ \E opCode \in OpCodes, isFloating \in BOOLEAN,
          baseSplitEdges \in SeqsUpTo(EdgeSet, MaxEdges), env \in Envelopes :
          LET envSet == isFloating /\ opCode \in {"opINTERSECTION", "opDIFFERENCE"}
              r == insertUniqueEdges(edgeList, dupEdges, SplitEdges(baseSplitEdges),
                                     IF envSet THEN env ELSE NullEnv)
          IN  /\ ov_opCode' = opCode
              /\ edgeList' = r.el
              /\ dupEdges' = r.dup
    /\ ov_pc' = "noded"
    /\ UNCHANGED <<graphEdges, ov_gv, ov_i, resultPolyList, resultLineList,
                   resultPointList, resultGeom, ov_exc, ov_hist>>
    /\ UNCHANGED notOv

\* Mutant of computeOverlay_checkValid: the handler clears edgeList but does
\* not rethrow
computeOverlay_checkValid_swallow ==
    /\ ov_pc = "noded"
    /\ \E valid \in BOOLEAN :
          IF valid
          THEN /\ ov_pc' = "validated"
               /\ UNCHANGED <<edgeList, ov_exc, ov_hist>>
          ELSE /\ edgeList' = <<>>
               /\ ov_exc' = ov_exc
               /\ ov_pc' = "validated"
               /\ ov_hist' = [ov_hist EXCEPT !.nodingExc =
                                 TopologyException("found non-noded intersection"),
                                             !.cleared = Len(edgeList)]
    /\ UNCHANGED <<ov_opCode, dupEdges, graphEdges, ov_gv, ov_i, resultPolyList,
                   resultLineList, resultPointList, resultGeom>>
    /\ UNCHANGED notOv

\* Lines 254-268: EdgeNodingValidator::checkValid; on a TopologyException the
\* handler clears edgeList and rethrows
computeOverlay_checkValid ==
    /\ ov_pc = "noded"
    /\ \E valid \in BOOLEAN :
          IF valid
          THEN /\ ov_pc' = "validated"
               /\ UNCHANGED <<edgeList, ov_exc, ov_hist>>
          ELSE LET ex == TopologyException("found non-noded intersection")
               IN  /\ edgeList' = <<>>
                   /\ ov_exc' = ex
                   /\ ov_pc' = "thrown"
                   /\ ov_hist' = [ov_hist EXCEPT !.nodingExc = ex,
                                                 !.cleared = Len(edgeList)]
    /\ UNCHANGED <<ov_opCode, dupEdges, graphEdges, ov_gv, ov_i, resultPolyList,
                   resultLineList, resultPointList, resultGeom>>
    /\ UNCHANGED notOv

\* Lines 274-282: graph.addEdges, computeLabelling (which can throw) and
\* labelIncompleteNodes
computeOverlay_addEdges ==
    /\ ov_pc = "validated"
    /\ graphEdges' = edgeList
    /\ \E throws \in BOOLEAN :
          IF throws
          THEN /\ ov_exc' = TopologyException("side location conflict")
               /\ ov_pc' = "thrown"
          ELSE /\ ov_exc' = ov_exc
               /\ ov_pc' = "labelled"
    /\ UNCHANGED <<ov_opCode, edgeList, dupEdges, ov_gv, ov_i, resultPolyList,
                   resultLineList, resultPointList, resultGeom, ov_hist>>
    /\ UNCHANGED notOv

\* Lines 295-307: findResultAreaEdges, cancelDuplicateResultEdges, the
\* PolygonBuilder (which can throw) and the allocation of resultPolyList
computeOverlay_buildPolygons ==
    /\ ov_pc = "labelled"
    /\ \E throws \in BOOLEAN, gvsize \in 0..MaxResult :
          IF throws
          THEN /\ ov_exc' = TopologyException("unable to assign hole to a shell")
               /\ ov_pc' = "thrown"
               /\ UNCHANGED <<ov_gv, ov_i, resultPolyList>>
          ELSE /\ ov_gv' = Created("Polygon", gvsize)
               /\ resultPolyList' = Vec([i \in 1..gvsize |-> NullElem])
               /\ ov_i' = 0
               /\ ov_pc' = "copyPolygons"
               /\ ov_exc' = ov_exc
    /\ ov_hist' = [ov_hist EXCEPT !.ran = @ \cup {"PolygonBuilder"}]
    /\ UNCHANGED <<ov_opCode, edgeList, dupEdges, graphEdges, resultLineList,
                   resultPointList, resultGeom>>
    /\ UNCHANGED notOv

\* Lines 308-311: one iteration of the loop that fills resultPolyList
computeOverlay_copyPolygon ==
    /\ ov_pc = "copyPolygons"
    /\ ov_i < Len(ov_gv)
    /\ resultPolyList' = [resultPolyList EXCEPT !.elems[ov_i + 1] = ov_gv[ov_i + 1]]
    /\ ov_i' = ov_i + 1
    /\ UNCHANGED <<ov_pc, ov_opCode, edgeList, dupEdges, graphEdges, ov_gv,
                   resultLineList, resultPointList, resultGeom, ov_exc, ov_hist>>
    /\ UNCHANGED notOv

\* Mutant of polygonsCopied: the copy loop stops one element early
polygonsCopied_offByOne == ov_pc = "copyPolygons" /\ ov_i >= Len(ov_gv) - 1

\* The loop of lines 308-311 has ended, so line 314 is reached
polygonsCopied == ov_pc = "copyPolygons" /\ ov_i >= Len(ov_gv)

\* Lines 314-315: LineBuilder::build starts
computeOverlay_lineBuilderStart ==
    /\ polygonsCopied
    /\ ov_pc' = "LineBuilder::build"
    /\ ov_hist' = [ov_hist EXCEPT !.ran = @ \cup {"LineBuilder"}]
    /\ UNCHANGED <<ov_opCode, edgeList, dupEdges, graphEdges, ov_gv, ov_i, resultPolyList,
                   resultLineList, resultPointList, resultGeom, ov_exc>>
    /\ UNCHANGED notOv

\* OverlayOp::isCovered: whether some geometry of the list covers the
\* coordinate (hit: what PointLocator finds for a non-empty list)
isCovered(geomList, hit) == geomList.elems # <<>> /\ hit

\* OverlayOp::isCoveredByA, called back by LineBuilder::build
isCoveredByA ==
    /\ ov_pc = "LineBuilder::build"
    /\ \E hit \in BOOLEAN :
          ov_hist' = [ov_hist EXCEPT !.obs = @ \cup
                        {[fn |-> "isCoveredByA", poly |-> resultPolyList,
                          line |-> NullList,
                          ret |-> isCovered(resultPolyList, hit)]}]
    /\ UNCHANGED <<ov_pc, ov_opCode, edgeList, dupEdges, graphEdges, ov_gv, ov_i,
                   resultPolyList, resultLineList, resultPointList, resultGeom, ov_exc>>
    /\ UNCHANGED notOv

\* Lines 315-318: LineBuilder::build returns, resultLineList is assigned and
\* PointBuilder::build starts
computeOverlay_pointBuilderStart ==
    /\ ov_pc = "LineBuilder::build"
    /\ \E n \in 0..MaxResult : resultLineList' = Vec(Created("LineString", n))
    /\ ov_pc' = "PointBuilder::build"
    /\ ov_hist' = [ov_hist EXCEPT !.ran = @ \cup {"PointBuilder"}]
    /\ UNCHANGED <<ov_opCode, edgeList, dupEdges, graphEdges, ov_gv, ov_i, resultPolyList,
                   resultPointList, resultGeom, ov_exc>>
    /\ UNCHANGED notOv

\* OverlayOp::isCoveredByLA, called back by PointBuilder::build
isCoveredByLA ==
    /\ ov_pc = "PointBuilder::build"
    /\ \E hitL \in BOOLEAN, hitA \in BOOLEAN :
          ov_hist' = [ov_hist EXCEPT !.obs = @ \cup
                        {[fn |-> "isCoveredByLA", poly |-> resultPolyList,
                          line |-> resultLineList,
                          ret |-> IF isCovered(resultLineList, hitL) THEN TRUE
                                  ELSE isCovered(resultPolyList, hitA)]}]
    /\ UNCHANGED <<ov_pc, ov_opCode, edgeList, dupEdges, graphEdges, ov_gv, ov_i,
                   resultPolyList, resultLineList, resultPointList, resultGeom, ov_exc>>
    /\ UNCHANGED notOv

\* Line 318: PointBuilder::build returns and resultPointList is assigned
computeOverlay_pointBuilderEnd ==
    /\ ov_pc = "PointBuilder::build"
    /\ \E n \in 0..MaxResult : resultPointList' = Vec(Created("Point", n))
    /\ ov_pc' = "computeGeometry"
    /\ UNCHANGED <<ov_opCode, edgeList, dupEdges, graphEdges, ov_gv, ov_i, resultPolyList,
                   resultLineList, resultGeom, ov_exc, ov_hist>>
    /\ UNCHANGED notOv

\* Lines 322-328 and 177: computeGeometry, checkObviouslyWrongResult (whose
\* validators are compiled out) and the return of resultGeom
computeOverlay_computeGeometry ==
    /\ ov_pc = "computeGeometry"
    /\ \E dim0 \in Dimensions, dim1 \in Dimensions :
          resultGeom' = computeGeometry(resultPointList, resultLineList, resultPolyList,
                                        ov_opCode, dim0, dim1)
    /\ ov_pc' = "returned"
    /\ UNCHANGED <<ov_opCode, edgeList, dupEdges, graphEdges, ov_gv, ov_i, resultPolyList,
                   resultLineList, resultPointList, ov_exc, ov_hist>>
    /\ UNCHANGED notOv

\* The OverlayOp right after its constructor (lines 131-140)
IdleOv ==
    /\ ov_pc = "start"
    /\ ov_opCode = "opINTERSECTION"
    /\ edgeList = <<>>
    /\ dupEdges = <<>>
    /\ graphEdges = <<>>
    /\ ov_gv = <<>>
    /\ ov_i = 0
    /\ resultPolyList = NullList
    /\ resultLineList = NullList
    /\ resultPointList = NullList
    /\ resultGeom = NullGeom
    /\ ov_exc = NoExc
    /\ ov_hist = [nodingExc |-> NoExc, cleared |-> 0, ran |-> {}, obs |-> {}]

NextOv ==
    \/ computeOverlay_nodeEdges
    \/ computeOverlay_checkValid
    \/ computeOverlay_addEdges
    \/ computeOverlay_buildPolygons
    \/ computeOverlay_copyPolygon
    \/ computeOverlay_lineBuilderStart
    \/ isCoveredByA
    \/ computeOverlay_pointBuilderStart
    \/ isCoveredByLA
    \/ computeOverlay_pointBuilderEnd
    \/ computeOverlay_computeGeometry

----------------------------------------------------------------------------
(* LWGEOM_in *)

\* The C string "SRID=" of line 50
SridPrefix == <<"S", "R", "I", "D", "=">>

\* tolower on the characters the inputs use
ToLower(c) ==
    CASE c = "S" -> "s"
      [] c = "R" -> "r"
      [] c = "I" -> "i"
      [] c = "D" -> "d"
      [] OTHER -> c

\* The character at 1-based index i of a NUL-terminated string
CharAt(str, i) == IF i <= Len(str) THEN str[i] ELSE "NUL"

\* strncasecmp(str, "SRID=", 5) == 0
strncasecmp_SRID(str) ==
    /\ Len(str) >= Len(SridPrefix)
    /\ \A i \in 1..Len(SridPrefix) : ToLower(str[i]) = ToLower(SridPrefix[i])

\* The index of the first ';' of str, 0 when it has none
FirstSemicolon(str) ==
    LET hits == {i \in 1..Len(str) : str[i] = ";"}
    IN  IF hits = {} THEN 0 ELSE CHOOSE i \in hits : \A j \in hits : i <= j

DigitValue(c) ==
    CASE c = "0" -> 0
      [] c = "1" -> 1
      [] c = "2" -> 2
      [] c = "4" -> 4
      [] OTHER -> -1

\* The value of the leading digits of str, continuing from acc
RECURSIVE atoi_digits(_, _)
atoi_digits(str, acc) ==
    IF str = <<>> \/ DigitValue(Head(str)) < 0
    THEN acc
    ELSE atoi_digits(Tail(str), 10 * acc + DigitValue(Head(str)))

\* atoi: an optional sign, then digits up to the first other character
atoi(str) ==
    IF str # <<>> /\ Head(str) = "-"
    THEN 0 - atoi_digits(Tail(str), 0)
    ELSE atoi_digits(str, 0)

\* The inputs tried: an optional SRID head, a number, a separator and a body
InHeads == {<<>>, <<"S", "R", "I", "D", "=">>, <<"s", "r", "i", "d", "=">>,
            <<"S", "r", "I", "d", "=">>, <<"S", "R", "I", "D">>, <<"S", "R", "I", "=">>}

InNumbers == {<<>>, <<"4">>, <<"0">>, <<"4", "2">>, <<"-", "1">>}

InSeparators == {<<>>, <<";">>}

InBodies == {<<>>, <<"0", "1">>, <<"{", "}">>, <<"P">>, <<"0", ";", "1">>, <<";", "0">>}

InInputs == {h \o n \o sp \o b : h \in InHeads, n \in InNumbers,
                                 sp \in InSeparators, b \in InBodies}

\* What lies behind the terminator of an input without ';' when the scan of
\* lines 53-54 runs past it: the read faults, or the scan stops at a ';' of
\* the neighbouring memory, followed by '0' or by another character
Beyond == {"fault", "semicolon0", "semicolonX"}

\* What the selected parser makes of its text
ParseOutcomes == {"geometry", "null", "failure"}

\* GSERIALIZED *LWGEOM_in(char *input)
LWGEOM_in(input, beyond, parsed) ==
    LET prefixed == strncasecmp_SRID(input)
        semi == FirstSemicolon(input)
        overrun == prefixed /\ semi = 0
        \* *(tmp + 1)
        after == IF overrun
                 THEN (IF beyond = "semicolon0" THEN "0" ELSE "X")
                 ELSE CharAt(input, semi + 1)
        strip == prefixed /\ after = "0"
        \* str after line 61
        str == IF ~strip THEN input
               ELSE IF overrun THEN <<"0", "memory">>
               ELSE SubSeq(input, semi + 1, Len(input))
        \* atoi(input + 5) once *tmp = '\0' is written
        srid == IF ~strip THEN 0
                ELSE atoi(SubSeq(input, Len(SridPrefix) + 1,
                                 IF overrun THEN Len(input) ELSE semi - 1))
        parser == IF CharAt(str, 1) = "0" THEN "WKB"
                  ELSE IF CharAt(str, 1) = "{" THEN "GeoJSON"
                  ELSE "WKT"
        lwgeom == IF parser = "WKT" THEN parsed = "geometry"
                  ELSE parsed # "null" /\ parsed # "failure"
    IN  IF overrun /\ beyond = "fault"
        THEN [called |-> TRUE, input |-> input, crashed |-> TRUE, parser |-> "none",
              str |-> <<>>, srid |-> 0, sridSet |-> FALSE, outOfBounds |-> TRUE,
              parsed |-> "none", ret |-> "none"]
        ELSE [called |-> TRUE, input |-> input, crashed |-> FALSE, parser |-> parser,
              str |-> str, srid |-> srid,
              sridSet |-> (parser = "WKB" /\ lwgeom /\ srid # 0),
              outOfBounds |-> overrun,
              parsed |-> parsed,
              ret |-> IF lwgeom THEN "GSERIALIZED" ELSE "NULL"]

CallLWGEOM_in ==
    \E input \in InInputs, beyond \in Beyond, parsed \in ParseOutcomes :
        /\ ~lw_in.called
        /\ lw_in' = LWGEOM_in(input, beyond, parsed)
        /\ UNCHANGED notIn

IdleIn ==
    lw_in = [called |-> FALSE, input |-> <<>>, crashed |-> FALSE, parser |-> "none",
             str |-> <<>>, srid |-> 0, sridSet |-> FALSE, outOfBounds |-> FALSE,
             parsed |-> "none", ret |-> "none"]

NextIn ==
    \/ CallLWGEOM_in

----------------------------------------------------------------------------
(* stringbuffer *)

\* Bounds of the stringbuffer model
MaxStartSize == 2

MaxText == 2

MaxSbLen == 3

\* The characters a format can produce
TextChars == {"a", "b"}

\* dst with the characters of data stored from offset off on
WriteAt(dst, off, data) ==
    [i \in 1..Len(dst) |->
        IF i > off /\ i <= off + Len(data) THEN data[i - off] ELSE dst[i]]

\* vsnprintf(str_start + off, maxlen, ...) producing text: at most maxlen - 1
\* characters are stored, then a NUL; the return value is Len(text)
vsnprintf(mem, off, maxlen, text) ==
    IF maxlen <= 0 THEN mem
    ELSE WriteAt(mem, off, SubSeq(text, 1, Min(Len(text), maxlen - 1)) \o <<"NUL">>)

\* What a vsnprintf call producing text does: it succeeds, or it fails
\* (returns -1) having stored nothing (wrote = -1) or the first `wrote'
\* characters of the text and a NUL
VsnSuccess == [fails |-> FALSE, wrote |-> 0]

VsnOutcomes(text) ==
    {VsnSuccess} \cup {[fails |-> TRUE, wrote |-> k] : k \in -1..Len(text)}

\* The memory after a failed vsnprintf call
vsnprintf_failed(mem, off, maxlen, text, wrote) ==
    IF wrote < 0 THEN mem
    ELSE vsnprintf(mem, off, maxlen, SubSeq(text, 1, Min(Len(text), wrote)))

\* The capacity stringbuffer_makeroom settles on: doubled until it holds
\* required characters
RECURSIVE makeroom_capacity(_, _)
makeroom_capacity(capacity, required) ==
    IF capacity < required THEN makeroom_capacity(capacity * 2, required) ELSE capacity

\* stringbuffer_makeroom(s, size_to_add): the new capacity and the memory,
\* whose added characters hold whatever lwrealloc leaves there (fill)
stringbuffer_makeroom(mem, end, capacity, size_to_add, fill) ==
    LET newcap == makeroom_capacity(capacity, end + size_to_add)
    IN  IF newcap > capacity
        THEN [capacity |-> newcap,
              mem |-> [i \in 1..newcap |-> IF i <= capacity THEN mem[i] ELSE fill]]
        ELSE [capacity |-> capacity, mem |-> mem]

\* Mutant of makeroom_request: no room for the terminator
makeroom_request_noNul(len) == len

\* What stringbuffer_makeroom is asked to add for a text of len characters
makeroom_request(len) == len + 1

\* stringbuffer_avprintf: the buffer afterwards and the value returned
stringbuffer_avprintf(text, v1, v2, fill) ==
    LET maxlen == sb_capacity - sb_end
        len == Len(text)
    IN  IF v1.fails
        THEN [ret |-> -1, end |-> sb_end, capacity |-> sb_capacity,
              mem |-> vsnprintf_failed(sb_str, sb_end, maxlen, text, v1.wrote)]
        ELSE LET mem1 == vsnprintf(sb_str, sb_end, maxlen, text)
             IN  IF len >= maxlen
                 THEN LET room == stringbuffer_makeroom(mem1, sb_end, sb_capacity,
                                                        makeroom_request(len), fill)
                          maxlen2 == room.capacity - sb_end
                      IN  IF v2.fails
                          THEN [ret |-> -1, end |-> sb_end, capacity |-> room.capacity,
                                mem |-> vsnprintf_failed(room.mem, sb_end, maxlen2, text,
                                                         v2.wrote)]
                          ELSE IF len >= maxlen2
                          THEN [ret |-> -1, end |-> sb_end, capacity |-> room.capacity,
                                mem |-> vsnprintf(room.mem, sb_end, maxlen2, text)]
                          ELSE [ret |-> len, end |-> sb_end + len,
                                capacity |-> room.capacity,
                                mem |-> vsnprintf(room.mem, sb_end, maxlen2, text)]
                 ELSE [ret |-> len, end |-> sb_end + len, capacity |-> sb_capacity,
                       mem |-> mem1]

\* int stringbuffer_aprintf(stringbuffer_t *s, const char *fmt, ...)
stringbuffer_aprintf ==
    \E text \in SeqsUpTo(TextChars, MaxText) :
    \E v1 \in VsnOutcomes(text) :
    \E v2 \in IF ~v1.fails /\ Len(text) >= sb_capacity - sb_end
               THEN VsnOutcomes(text) ELSE {VsnSuccess} :
    \E fill \in IF ~v1.fails /\ Len(text) >= sb_capacity - sb_end
                 THEN {"NUL", "g"} ELSE {"NUL"} :
        LET r == stringbuffer_avprintf(text, v1, v2, fill)
            second == ~v1.fails /\ Len(text) >= sb_capacity - sb_end
        IN  /\ sb_end + Len(text) <= MaxSbLen
            /\ sb_str' = r.mem
            /\ sb_end' = r.end
            /\ sb_capacity' = r.capacity
            /\ sb_last' = [called |-> TRUE, ret |-> r.ret, text |-> text,
                           lenBefore |-> sb_end,
                           strBefore |-> SubSeq(sb_str, 1, sb_end),
                           capBefore |-> sb_capacity,
                           vfailed |-> (v1.fails \/ (second /\ v2.fails))]
            /\ UNCHANGED notSb

\* const char *stringbuffer_getstring: the C string at str_start, i.e. the
\* characters before the first NUL; when the memory holds no NUL the read
\* runs off its end, which "overrun" stands for
stringbuffer_getstring ==
    LET nuls == {i \in 1..Len(sb_str) : sb_str[i] = "NUL"}
    IN  IF nuls = {} THEN sb_str \o <<"overrun">>
        ELSE SubSeq(sb_str, 1, (CHOOSE i \in nuls : \A j \in nuls : i <= j) - 1)

\* int stringbuffer_getlength
stringbuffer_getlength == sb_end

\* stringbuffer_create_with_size(size) (stringbuffer_create passes
\* STRINGBUFFER_STARTSIZE): zeroed memory and an empty string.  Only sizes
\* >= 1 are drawn: with size 0 the doubling of stringbuffer_makeroom never ends.
stringbuffer_init_with_size(size) ==
    /\ sb_str = [i \in 1..size |-> "NUL"]
    /\ sb_end = 0
    /\ sb_capacity = size

NoSbCall ==
    [called |-> FALSE, ret |-> 0, text |-> <<>>, lenBefore |-> 0, strBefore |-> <<>>,
     capBefore |-> 0, vfailed |-> FALSE]

SbCreated ==
    /\ \E size \in 1..MaxStartSize : stringbuffer_init_with_size(size)
    /\ sb_last = NoSbCall

IdleSb ==
    /\ stringbuffer_init_with_size(1)
    /\ sb_last = NoSbCall

NextSb ==
    \/ stringbuffer_aprintf

----------------------------------------------------------------------------
(* lwcompound_add_lwgeom *)

\* Bound of the compound model
MaxGeoms == 2

\* Coordinates are counted in units of FP_TOLERANCE
FP_TOLERANCE == 1

LW_FAILURE == 0

LW_SUCCESS == 1

Abs(a) == IF a < 0 THEN 0 - a ELSE a

\* FP_EQUALS(A, B): fabs(A - B) <= FP_TOLERANCE
FP_EQUALS(a, b) == Abs(a - b) <= FP_TOLERANCE

\* The points the component lines are made of
LcPoints == {[x |-> 0, y |-> 0], [x |-> 1, y |-> 0], [x |-> 0, y |-> 1],
             [x |-> 3, y |-> 0], [x |-> 0, y |-> 3]}

\* The geometries offered to lwcompound_add_lwgeom: lines of 0 to 2 points
LcLines == SeqsUpTo(LcPoints, 2)

\* lwgeom_is_empty for a line
lwgeom_is_empty(geom) == Len(geom) < 1

\* lwcollection_add_lwgeom: the geometry becomes the last component
lwcollection_add_lwgeom(col, geom) == Append(col, geom)

\* Mutant of lwcompound_add_lwgeom: only x is compared
lwcompound_add_lwgeom_xOnly(col, geom) ==
    IF lwgeom_is_empty(geom)
    THEN [ret |-> LW_FAILURE, col |-> col]
    ELSE IF Len(col) > 0
            /\ LET first == geom[1]
                   prevline == col[Len(col)]
                   last == prevline[Len(prevline)]
               IN  ~FP_EQUALS(first.x, last.x)
    THEN [ret |-> LW_FAILURE, col |-> col]
    ELSE [ret |-> LW_SUCCESS, col |-> lwcollection_add_lwgeom(col, geom)]

\* int lwcompound_add_lwgeom(LWCOMPOUND *comp, LWGEOM *geom)
lwcompound_add_lwgeom(col, geom) ==
    IF lwgeom_is_empty(geom)
    THEN [ret |-> LW_FAILURE, col |-> col]
    ELSE IF Len(col) > 0
            /\ LET first == geom[1]
                   prevline == col[Len(col)]
                   last == prevline[Len(prevline)]
               IN  ~(FP_EQUALS(first.x, last.x) /\ FP_EQUALS(first.y, last.y))
    THEN [ret |-> LW_FAILURE, col |-> col]
    ELSE [ret |-> LW_SUCCESS, col |-> lwcollection_add_lwgeom(col, geom)]

CallLwcompoundAdd ==
    \E geom \in LcLines :
        LET r == lwcompound_add_lwgeom(lc_geoms, geom)
        IN  /\ Len(r.col) <= MaxGeoms
            /\ lc_geoms' = r.col
            /\ lc_last' = [called |-> TRUE, geom |-> geom, ret |-> r.ret,
                           before |-> lc_geoms]
            /\ UNCHANGED notLc

\* An empty compound (lwcompound_construct_empty)
IdleLc ==
    /\ lc_geoms = <<>>
    /\ lc_last = [called |-> FALSE, geom |-> <<>>, ret |-> LW_FAILURE, before |-> <<>>]

NextLc ==
    \/ CallLwcompoundAdd

----------------------------------------------------------------------------
(* LWGEOM_asBinary *)

\* Bound of the asBinary model: the length of the text argument
MaxAbText == 3

AbChars == {"x", "d", "r", "X", "D", "R", "n"}

\* Whether strncmp(a, b, n) finds no difference from index i on: the
\* comparison ends at the first differing character, at a NUL or after n
RECURSIVE strncmp_from(_, _, _, _)
strncmp_from(a, b, i, n) ==
    IF i > n THEN TRUE
    ELSE IF CharAt(a, i) # CharAt(b, i) THEN FALSE
    ELSE IF CharAt(a, i) = "NUL" THEN TRUE
    ELSE strncmp_from(a, b, i + 1, n)

\* Mutant of strncmp_eq: the comparison ignores case
strncmp_eq_nocase(a, b, n) ==
    LET low(c) == CASE c = "X" -> "x" [] c = "D" -> "d" [] c = "R" -> "r" [] OTHER -> c
    IN  \A i \in 1..n : low(CharAt(a, i)) = low(CharAt(b, i)) /\ CharAt(a, i) # "NUL"

\* strncmp(a, b, n) == 0
strncmp_eq(a, b, n) == strncmp_from(a, b, 1, n)

\* The variant LWGEOM_asBinary hands to lwgeom_to_wkb_varlena, as the set of
\* the WKB_* flags or-ed together
LWGEOM_asBinary(text) ==
    LET variant == {"WKB_ISO"}
    IN  IF text # <<>>
        THEN IF strncmp_eq(text, <<"x", "d", "r">>, 3) \/ strncmp_eq(text, <<"X", "D", "R">>, 3)
             THEN variant \cup {"WKB_XDR"}
             ELSE variant \cup {"WKB_NDR"}
        ELSE variant

CallLWGEOM_asBinary ==
    \E text \in SeqsUpTo(AbChars, MaxAbText) :
        /\ ~ab_call.called
        /\ ab_call' = [called |-> TRUE, text |-> text, variant |-> LWGEOM_asBinary(text)]
        /\ UNCHANGED notAb

IdleAb ==
    ab_call = [called |-> FALSE, text |-> <<>>, variant |-> {}]

NextAb ==
    \/ CallLWGEOM_asBinary

----------------------------------------------------------------------------
(* OverlayOp::insertUniqueEdges / insertUniqueEdge, call by call *)

\* Bound: the number of edges passed in
MaxCalls == 3

\* The coordinate sequences of the edges passed in
UePts == {<<1, 2>>, <<2, 1>>, <<2, 3>>, <<1, 2, 1>>}

\* The labels the edges of the two inputs carry: line edges, and area edges
\* with the interior on either side
UeLabels ==
    {LabelLine(0, "INTERIOR"),
     LabelArea(0, "BOUNDARY", "EXTERIOR", "INTERIOR"),
     LabelArea(0, "BOUNDARY", "INTERIOR", "EXTERIOR"),
     LabelArea(1, "BOUNDARY", "INTERIOR", "EXTERIOR")}

NoUeCall == [op |-> "none"]

\* Lines 526-529: the loop body of insertUniqueEdges for an edge whose
\* envelope misses env
insertUniqueEdges_outside ==
    /\ ue_hist.count < MaxCalls
    /\ ue_env # NullEnv
    /\ \E pts \in UePts, label \in UeLabels :
          LET e == Edge(ue_hist.count + 1, pts, label)
          IN  /\ ~intersects(ue_env, getEnvelope(e))
              /\ dupEdges' = Append(dupEdges, e)
              /\ ue_hist' = [count |-> ue_hist.count + 1,
                             ndup |-> ue_hist.ndup,
                             last |-> [op |-> "outside", e |-> e]]
    /\ UNCHANGED <<edgeList, ue_env>>
    /\ UNCHANGED <<ov_pc, ov_opCode, graphEdges, ov_gv, ov_i, resultPolyList,
                   resultLineList, resultPointList, resultGeom, ov_exc, ov_hist>>
    /\ UNCHANGED notUe

\* Line 530 and lines 535-575: insertUniqueEdge(e) for a new Edge object e
CallInsertUniqueEdge ==
    /\ ue_hist.count < MaxCalls
    /\ \E pts \in UePts, label \in UeLabels :
          LET e == Edge(ue_hist.count + 1, pts, label)
              k == findEqualEdge(edgeList, e)
              r == insertUniqueEdge(edgeList, dupEdges, e)
          IN  /\ IF ue_env = NullEnv THEN TRUE ELSE intersects(ue_env, getEnvelope(e))
              /\ edgeList' = r.el
              /\ dupEdges' = r.dup
              /\ ue_hist' = [count |-> ue_hist.count + 1,
                             ndup |-> IF k # 0
                                      THEN [ue_hist.ndup EXCEPT ![k] = @ + 1]
                                      ELSE Append(ue_hist.ndup, 0),
                             last |-> [op |-> "insertUniqueEdge", e |-> e, k |-> k,
                                       elBefore |-> edgeList, dupBefore |-> dupEdges,
                                       ndupBefore |-> IF k # 0 THEN ue_hist.ndup[k] ELSE 0]]
    /\ UNCHANGED ue_env
    /\ UNCHANGED <<ov_pc, ov_opCode, graphEdges, ov_gv, ov_i, resultPolyList,
                   resultLineList, resultPointList, resultGeom, ov_exc, ov_hist>>
    /\ UNCHANGED notUe

IdleUe ==
    /\ ue_env = NullEnv
    /\ ue_hist = [count |-> 0, ndup |-> <<>>, last |-> NoUeCall]

\* An OverlayOp whose lists are empty, with the env computeOverlay chose
UeStart ==
    /\ ue_env \in {NullEnv} \cup Envelopes
    /\ ue_hist = [count |-> 0, ndup |-> <<>>, last |-> NoUeCall]

NextUe ==
    \/ insertUniqueEdges_outside
    \/ CallInsertUniqueEdge

----------------------------------------------------------------------------
(* OverlayOp::findResultAreaEdges / cancelDuplicateResultEdges *)

\* Bound: the number of edges of the graph (each gives two directed edges)
MaxGraphEdges == 2

\* The locations one geometry gives an edge of the labelled graph: a line
\* location, or an area location with the interior on one side or on both
GrLocations ==
    {TopologyLocation1("INTERIOR"),
     TopologyLocation3("BOUNDARY", "INTERIOR", "EXTERIOR"),
     TopologyLocation3("BOUNDARY", "EXTERIOR", "INTERIOR"),
     TopologyLocation3("INTERIOR", "INTERIOR", "INTERIOR")}

GrLabels == [0..1 -> GrLocations]

\* PlanarGraph::addEdges: every edge gives a forward DirectedEdge carrying
\* the edge's label and a reverse one carrying the flipped label, each the
\* sym of the other, pushed in this order; isInResult starts false
addEdges(labels) ==
    [j \in 1..(2 * Len(labels)) |->
        IF j % 2 = 1
        THEN [label |-> labels[(j + 1) \div 2], sym |-> j + 1, isInResult |-> FALSE]
        ELSE [label |-> Label_flip(labels[j \div 2]), sym |-> j - 1, isInResult |-> FALSE]]

\* DirectedEdge::isInteriorAreaEdge: for both geometries the label is an
\* area label with INTERIOR on the left and on the right
isInteriorAreaEdge(de) ==
    \A i \in 0..1 :
        /\ Label_isAreaAt(de.label, i)
        /\ Label_getLocation(de.label, i, "LEFT") = "INTERIOR"
        /\ Label_getLocation(de.label, i, "RIGHT") = "INTERIOR"

\* The flags of the directed edges, in vector order
InResultFlags(ee) == [j \in 1..Len(ee) |-> ee[j].isInResult]

\* Mutant of findResultAreaEdges_body: the LEFT locations are tested
findResultAreaEdges_bodyLeft(ee, i, opCode) ==
    LET de == ee[i + 1]
        label == de.label
    IN  IF /\ Label_isArea(label)
           /\ ~isInteriorAreaEdge(de)
           /\ isResultOfOp(Label_getLocation(label, 0, "LEFT"),
                           Label_getLocation(label, 1, "LEFT"), opCode)
        THEN [ee EXCEPT ![i + 1].isInResult = TRUE]
        ELSE ee

\* Lines 474-482: the body of the loop of findResultAreaEdges for index i
findResultAreaEdges_body(ee, i, opCode) ==
    LET de == ee[i + 1]
        label == de.label
    IN  IF /\ Label_isArea(label)
           /\ ~isInteriorAreaEdge(de)
           /\ isResultOfOp(Label_getLocation(label, 0, "RIGHT"),
                           Label_getLocation(label, 1, "RIGHT"), opCode)
        THEN [ee EXCEPT ![i + 1].isInResult = TRUE]
        ELSE ee

\* Mutant of cancelDuplicateResultEdges_body: only de is taken out
cancelDuplicateResultEdges_bodyOneSided(ee, i) ==
    LET de == ee[i + 1]
        sym == ee[de.sym]
    IN  IF de.isInResult /\ sym.isInResult
        THEN [ee EXCEPT ![i + 1].isInResult = FALSE]
        ELSE ee

\* Lines 491-498: the body of the loop of cancelDuplicateResultEdges for
\* index i
cancelDuplicateResultEdges_body(ee, i) ==
    LET de == ee[i + 1]
        sym == ee[de.sym]
    IN  IF de.isInResult /\ sym.isInResult
        THEN [ee EXCEPT ![i + 1].isInResult = FALSE, ![de.sym].isInResult = FALSE]
        ELSE ee

\* One iteration of the loop of findResultAreaEdges
findResultAreaEdges_iter ==
    /\ gr_pc = "findResultAreaEdges"
    /\ gr_i < Len(gr_ee)
    /\ gr_ee' = findResultAreaEdges_body(gr_ee, gr_i, gr_opCode)
    /\ gr_i' = gr_i + 1
    /\ gr_hist' = [gr_hist EXCEPT !.prev = InResultFlags(gr_ee)]
    /\ UNCHANGED <<gr_opCode, gr_pc>>
    /\ UNCHANGED notGr

\* findResultAreaEdges returns; computeOverlay (line 296) goes on to
\* cancelDuplicateResultEdges
findResultAreaEdges_return ==
    /\ gr_pc = "findResultAreaEdges"
    /\ gr_i >= Len(gr_ee)
    /\ gr_pc' = "cancelDuplicateResultEdges"
    /\ gr_i' = 0
    /\ gr_hist' = [gr_hist EXCEPT !.found = InResultFlags(gr_ee),
                                  !.prev = InResultFlags(gr_ee)]
    /\ UNCHANGED <<gr_ee, gr_opCode>>
    /\ UNCHANGED notGr

\* One iteration of the loop of cancelDuplicateResultEdges
cancelDuplicateResultEdges_iter ==
    /\ gr_pc = "cancelDuplicateResultEdges"
    /\ gr_i < Len(gr_ee)
    /\ gr_ee' = cancelDuplicateResultEdges_body(gr_ee, gr_i)
    /\ gr_i' = gr_i + 1
    /\ gr_hist' = [gr_hist EXCEPT !.prev = InResultFlags(gr_ee)]
    /\ UNCHANGED <<gr_opCode, gr_pc>>
    /\ UNCHANGED notGr

cancelDuplicateResultEdges_return ==
    /\ gr_pc = "cancelDuplicateResultEdges"
    /\ gr_i >= Len(gr_ee)
    /\ gr_pc' = "returned"
    /\ UNCHANGED <<gr_ee, gr_opCode, gr_i, gr_hist>>
    /\ UNCHANGED notGr

IdleGr ==
    /\ gr_ee = <<>>
    /\ gr_opCode = "opINTERSECTION"
    /\ gr_pc = "idle"
    /\ gr_i = 0
    /\ gr_hist = [prev |-> <<>>, found |-> <<>>]

\* The labelled graph when computeOverlay calls findResultAreaEdges(opCode)
GrStart ==
    /\ \E labels \in SeqsUpTo(GrLabels, MaxGraphEdges) : gr_ee = addEdges(labels)
    /\ gr_opCode \in OpCodes
    /\ gr_pc = "findResultAreaEdges"
    /\ gr_i = 0
    /\ gr_hist = [prev |-> InResultFlags(gr_ee), found |-> <<>>]

NextGr ==
    \/ findResultAreaEdges_iter
    \/ findResultAreaEdges_return
    \/ cancelDuplicateResultEdges_iter
    \/ cancelDuplicateResultEdges_return

----------------------------------------------------------------------------
(* Specifications *)

InitReader == ReaderOpened /\ IdleIr /\ IdleOv /\ IdleIn /\ IdleSb /\ IdleLc /\ IdleAb
                /\ IdleUe /\ IdleGr

SpecReader == InitReader /\ [][NextReader]_vars

InitIr == ReaderIdle /\ IdleIr /\ IdleOv /\ IdleIn /\ IdleSb /\ IdleLc /\ IdleAb
                /\ IdleUe /\ IdleGr

SpecIr == InitIr /\ [][NextIr]_vars

InitOv == ReaderIdle /\ IdleIr /\ IdleOv /\ IdleIn /\ IdleSb /\ IdleLc /\ IdleAb
                /\ IdleUe /\ IdleGr

SpecOv == InitOv /\ [][NextOv]_vars

InitIn == ReaderIdle /\ IdleIr /\ IdleOv /\ IdleIn /\ IdleSb /\ IdleLc /\ IdleAb
                /\ IdleUe /\ IdleGr

SpecIn == InitIn /\ [][NextIn]_vars

InitSb == ReaderIdle /\ IdleIr /\ IdleOv /\ IdleIn /\ SbCreated /\ IdleLc /\ IdleAb
                /\ IdleUe /\ IdleGr

SpecSb == InitSb /\ [][NextSb]_vars

InitLc == ReaderIdle /\ IdleIr /\ IdleOv /\ IdleIn /\ IdleSb /\ IdleLc /\ IdleAb
                /\ IdleUe /\ IdleGr

SpecLc == InitLc /\ [][NextLc]_vars

InitAb == ReaderIdle /\ IdleIr /\ IdleOv /\ IdleIn /\ IdleSb /\ IdleLc /\ IdleAb
                /\ IdleUe /\ IdleGr

SpecAb == InitAb /\ [][NextAb]_vars

InitUe == ReaderIdle /\ IdleIr /\ IdleOv /\ IdleIn /\ IdleSb /\ IdleLc /\ IdleAb
                /\ UeStart /\ IdleGr

SpecUe == InitUe /\ [][NextUe]_vars

InitGr == ReaderIdle /\ IdleIr /\ IdleOv /\ IdleIn /\ IdleSb /\ IdleLc /\ IdleAb
                /\ IdleUe /\ GrStart

SpecGr == InitGr /\ [][NextGr]_vars

----------------------------------------------------------------------------
(* Claims *)

\* The bytes do_read has produced so far
Produced == SubSeq(file, 1, filePos)

(* C1: the bytes handed to the caller by next_char, by a successful
   check_next_char and by read, concatenated in call order, are a prefix of
   the byte stream do_read has produced (none delivered twice, skipped or
   reordered), and next_char / peek return false only when the buffer was
   empty and do_read returned <= 0. *)
C1_DeliveredIsPrefixOfStream ==
    /\ IsPrefix(delivered, Produced)
    /\ (rd_last.op \in {"next_char", "peek"} /\ ~rd_last.ok)
           => (rd_last.wasEmpty /\ rd_last.called /\ rd_last.sz <= 0)


(* C2: isResultOfOp treats BOUNDARY as INTERIOR and then returns, for
   INTERSECTION, whether both locations are INTERIOR; for UNION, whether at
   least one is; for DIFFERENCE, whether loc0 is and loc1 is not; for
   SYMDIFFERENCE, whether exactly one is.  The Label overload returns that
   value for the label's two ON locations. *)
C2_Interior(loc) == loc \in {"INTERIOR", "BOUNDARY"}

C2_Table(loc0, loc1, opCode) ==
    LET a == C2_Interior(loc0)
        b == C2_Interior(loc1)
    IN  /\ opCode = "opINTERSECTION" => (a /\ b)
        /\ opCode = "opUNION" => (a \/ b)
        /\ opCode = "opDIFFERENCE" => (a /\ ~b)
        /\ opCode = "opSYMDIFFERENCE" => (a # b)

C2_IsResultOfOpTable ==
    /\ ir_call.overload = "locations" =>
           (ir_ret <=> C2_Table(ir_call.loc0, ir_call.loc1, ir_call.opCode))
    /\ ir_call.overload = "label" =>
           (ir_ret <=> C2_Table(ir_call.label[0].on, ir_call.label[1].on, ir_call.opCode))

C2_Witness ==
    /\ ir_call.overload = "label"
    /\ ir_call.opCode = "opSYMDIFFERENCE"
    /\ ir_call.label[0].on = "BOUNDARY"
    /\ ir_call.label[1].on = "EXTERIOR"
    /\ ir_ret = TRUE

(* C7: when the edge noding validation throws a TopologyException, the edge
   list is cleared, that same exception propagates out of getResultGeometry,
   no edge has been added to the result graph, no builder has run and no
   result geometry exists or is returned. *)
C7_NodingFailureAborts ==
    ov_hist.nodingExc # NoExc =>
        /\ edgeList = <<>>
        /\ ov_pc = "thrown"
        /\ ov_exc = ov_hist.nodingExc
        /\ graphEdges = <<>>
        /\ ov_hist.ran = {}
        /\ resultPolyList = NullList
        /\ resultLineList = NullList
        /\ resultPointList = NullList
        /\ resultGeom = NullGeom

C7_Witness ==
    /\ ov_hist.nodingExc # NoExc
    /\ ov_exc.type = "TopologyException"
    /\ ov_hist.cleared = 2
    /\ edgeList = <<>>

(* C8: computeGeometry hands the factory every point, then every line, then
   every polygon of the result lists, each once and in its list order; it
   returns the empty result only when the three lists are all empty. *)
C8_ResultOrderPLA ==
    ov_pc = "returned" =>
        LET P == resultPointList.elems
            L == resultLineList.elems
            A == resultPolyList.elems
            g == resultGeom.geomList
        IN  IF P = <<>> /\ L = <<>> /\ A = <<>>
            THEN resultGeom.kind = "empty"
            ELSE /\ resultGeom.kind = "built"
                 /\ Len(g) = Len(P) + Len(L) + Len(A)
                 /\ \A i \in 1..Len(P) : g[i] = P[i]
                 /\ \A i \in 1..Len(L) : g[Len(P) + i] = L[i]
                 /\ \A i \in 1..Len(A) : g[Len(P) + Len(L) + i] = A[i]
                 /\ \A i, j \in 1..Len(g) : i # j => g[i] # g[j]

C8_Witness ==
    /\ ov_pc = "returned"
    /\ Len(resultPointList.elems) = 2
    /\ Len(resultLineList.elems) = 1
    /\ Len(resultPolyList.elems) = 2
    /\ resultGeom.kind = "built"

(* C10: the result geometries are built in the order areas, lines, points:
   resultPolyList is fully populated before LineBuilder::build starts and
   resultLineList is set before PointBuilder::build starts, so every
   isCoveredByA and isCoveredByLA call reads non-null, completed lists. *)
C10_Complete(list, built) ==
    /\ ~list.isNull
    /\ list.elems = built
    /\ \A i \in 1..Len(list.elems) : list.elems[i] # NullElem

C10_AreasThenLinesThenPoints ==
    /\ "LineBuilder" \in ov_hist.ran =>
           ("PolygonBuilder" \in ov_hist.ran /\ C10_Complete(resultPolyList, ov_gv))
    /\ "PointBuilder" \in ov_hist.ran =>
           ("LineBuilder" \in ov_hist.ran /\ ~resultLineList.isNull)
    /\ \A o \in ov_hist.obs :
           /\ C10_Complete(o.poly, ov_gv)
           /\ o.fn = "isCoveredByLA" => (~o.line.isNull /\ o.line = resultLineList)

C10_Witness ==
    /\ Len(ov_gv) = 2
    /\ \E o \in ov_hist.obs : o.fn = "isCoveredByA" /\ o.ret
    /\ \E o \in ov_hist.obs : o.fn = "isCoveredByLA" /\ o.ret /\ o.line.elems # <<>>

(* C3: LWGEOM_in picks the parser by the first character of the input after
   the optional SRID stripping ('0': hex WKB, '{': GeoJSON, anything else:
   WKT); an "SRID=n;" prefix (in any case) is cut off and n applied only when
   the character after the ';' is '0'; NULL is returned whenever the parser
   fails or yields no geometry. *)
C3_HasSridPrefix(input) == strncasecmp_SRID(input) /\ FirstSemicolon(input) # 0

C3_Stripped(input) ==
    IF C3_HasSridPrefix(input) /\ CharAt(input, FirstSemicolon(input) + 1) = "0"
    THEN SubSeq(input, FirstSemicolon(input) + 1, Len(input))
    ELSE input

C3_Parser(text) ==
    IF text # <<>> /\ Head(text) = "0" THEN "WKB"
    ELSE IF text # <<>> /\ Head(text) = "{" THEN "GeoJSON"
    ELSE "WKT"

C3_ParserByFirstCharacter ==
    lw_in.called =>
        /\ ~lw_in.crashed
        /\ lw_in.str = C3_Stripped(lw_in.input)
        /\ lw_in.parser = C3_Parser(C3_Stripped(lw_in.input))
        /\ (lw_in.str # lw_in.input \/ lw_in.sridSet) =>
               /\ C3_HasSridPrefix(lw_in.input)
               /\ CharAt(lw_in.input, FirstSemicolon(lw_in.input) + 1) = "0"
        /\ lw_in.parsed # "geometry" => lw_in.ret = "NULL"

(* C4: after stringbuffer_create / stringbuffer_create_with_size and any
   sequence of stringbuffer_aprintf calls, successful or failed, the string
   stringbuffer_getstring returns ends exactly at str_end (its strlen is
   stringbuffer_getlength) and the used length is below the capacity. *)
C4_NulTerminatedAtStrEnd ==
    /\ Len(stringbuffer_getstring) = stringbuffer_getlength
    /\ stringbuffer_getlength < sb_capacity

(* C5: a successful stringbuffer_aprintf returns the number of characters
   appended, keeps the characters accumulated before, and lengthens the
   string by the value returned, growing the buffer when the text does not
   fit; a failing one returns a negative value and leaves the length as it
   was. *)
C5_AppendOrUnchanged ==
    sb_last.called =>
        /\ sb_last.ret >= 0 =>
              /\ sb_last.ret = Len(sb_last.text)
              /\ stringbuffer_getlength = sb_last.lenBefore + sb_last.ret
              /\ SubSeq(sb_str, 1, sb_last.lenBefore) = sb_last.strBefore
              /\ SubSeq(sb_str, sb_last.lenBefore + 1, sb_end) = sb_last.text
              /\ sb_capacity > sb_end
        /\ sb_last.ret < 0 =>
              /\ sb_last.vfailed
              /\ stringbuffer_getlength = sb_last.lenBefore
        /\ ~sb_last.vfailed => sb_last.ret >= 0

C5_Witness ==
    /\ sb_last.called
    /\ sb_last.ret = 2
    /\ sb_last.lenBefore = 1
    /\ sb_capacity > sb_last.capBefore

(* C6: lwcompound_add_lwgeom returns LW_FAILURE and leaves the compound as
   it was when the geometry is empty, or when the compound has components
   and the geometry's first point differs in x or in y, by more than the
   FP_EQUALS tolerance, from the last point of the last component; otherwise
   it appends the geometry and returns LW_SUCCESS.  So every component
   starts where the component before it ends. *)
C6_Differ(p, q) ==
    \/ p.x - q.x > FP_TOLERANCE
    \/ q.x - p.x > FP_TOLERANCE
    \/ p.y - q.y > FP_TOLERANCE
    \/ q.y - p.y > FP_TOLERANCE

C6_EndPoint(line) == line[Len(line)]

C6_JoinedOrRejected ==
    /\ lc_last.called =>
          LET before == lc_last.before
              geom == lc_last.geom
              rejected == \/ geom = <<>>
                          \/ /\ before # <<>>
                             /\ geom # <<>>
                             /\ C6_Differ(geom[1], C6_EndPoint(before[Len(before)]))
          IN  IF rejected
              THEN lc_last.ret = LW_FAILURE /\ lc_geoms = before
              ELSE lc_last.ret = LW_SUCCESS /\ lc_geoms = before \o <<geom>>
    /\ \A i \in 2..Len(lc_geoms) :
          ~C6_Differ(lc_geoms[i][1], C6_EndPoint(lc_geoms[i - 1]))

C6_Witness ==
    /\ lc_last.called
    /\ lc_last.ret = LW_SUCCESS
    /\ Len(lc_geoms) = 2
    /\ lc_geoms[2][1] # C6_EndPoint(lc_geoms[1])

(* C9: LWGEOM_asBinary asks for ISO WKB, big-endian (XDR) when the text
   starts with "xdr" or "XDR", little-endian (NDR) for every other non-empty
   text, and with neither endianness flag when the text is empty. *)
C9_StartsWith(text, prefix) ==
    Len(text) >= Len(prefix) /\ SubSeq(text, 1, Len(prefix)) = prefix

C11_Held(list, id) == Cardinality({i \in 1..Len(list) : list[i].id = id})

C11_NoEqualEdges ==
    \A i \in 1..Len(edgeList) : \A j \in 1..Len(edgeList) :
        i # j => /\ edgeList[i].pts # edgeList[j].pts
                 /\ edgeList[i].pts # Reverse(edgeList[j].pts)

C11_HeldExactlyOnce ==
    \A id \in 1..ue_hist.count : C11_Held(edgeList, id) + C11_Held(dupEdges, id) = 1

C11_DuplicateMerged ==
    LET c == ue_hist.last
    IN  (c.op = "insertUniqueEdge" /\ c.k # 0) =>
          LET existing == c.elBefore[c.k]
              toMerge == IF c.e.pts = existing.pts THEN c.e.label ELSE Label_flip(c.e.label)
              start == IF c.ndupBefore = 0
                       THEN Depth_add(NullDepth, existing.label)
                       ELSE existing.depth
          IN  /\ Len(edgeList) = Len(c.elBefore)
              /\ \A i \in 1..Len(edgeList) : i # c.k => edgeList[i] = c.elBefore[i]
              /\ edgeList[c.k].id = existing.id
              /\ edgeList[c.k].pts = existing.pts
              /\ edgeList[c.k].label = Label_merge(existing.label, toMerge)
              /\ edgeList[c.k].depth = Depth_add(start, toMerge)
              /\ dupEdges = Append(c.dupBefore, c.e)

C11_NewAdded ==
    LET c == ue_hist.last
    IN  (c.op = "insertUniqueEdge" /\ c.k = 0) =>
          /\ edgeList = Append(c.elBefore, c.e)
          /\ dupEdges = c.dupBefore

C11_UniqueEdgesMerged ==
    /\ C11_NoEqualEdges
    /\ C11_HeldExactlyOnce
    /\ C11_DuplicateMerged
    /\ C11_NewAdded

\* A second duplicate that runs in the reverse direction and carries an area
\* label has been merged
C11_Witness ==
    LET c == ue_hist.last
    IN  /\ c.op = "insertUniqueEdge"
        /\ c.k # 0
        /\ c.ndupBefore = 1
        /\ c.e.pts # c.elBefore[c.k].pts
        /\ Label_isArea(c.e.label)
        /\ edgeList[c.k].label # c.elBefore[c.k].label

(* C12: findResultAreaEdges marks a directed edge as in-result exactly when
   its label is an area label, it is not an interior area edge, and
   isResultOfOp holds for the RIGHT locations of geometry 0 and geometry 1
   under the requested opCode; it never clears the in-result flag of an
   edge. *)
C12_AreaLabel(de) == de.label[0].locationSize = 3 \/ de.label[1].locationSize = 3

C12_InteriorAreaEdge(de) ==
    \A g \in 0..1 : /\ de.label[g].locationSize = 3
                    /\ de.label[g].left = "INTERIOR"
                    /\ de.label[g].right = "INTERIOR"

C12_Right(de, g) == IF de.label[g].locationSize = 3 THEN de.label[g].right ELSE "NONE"

C12_ToMark(de) ==
    /\ C12_AreaLabel(de)
    /\ ~C12_InteriorAreaEdge(de)
    /\ isResultOfOp(C12_Right(de, 0), C12_Right(de, 1), gr_opCode)

C12_MarkedExactlyResultAreaEdges ==
    /\ gr_pc = "findResultAreaEdges" =>
          /\ \A j \in 1..Len(gr_ee) :
                gr_ee[j].isInResult <=> (j <= gr_i /\ C12_ToMark(gr_ee[j]))
          /\ \A j \in 1..Len(gr_ee) : gr_hist.prev[j] => gr_ee[j].isInResult
    /\ gr_pc \in {"cancelDuplicateResultEdges", "returned"} =>
          \A j \in 1..Len(gr_ee) : gr_hist.found[j] <=> C12_ToMark(gr_ee[j])

\* findResultAreaEdges has returned having marked one edge and passed over a
\* line edge and an area edge that isResultOfOp rejects
C12_Witness ==
    /\ gr_pc = "cancelDuplicateResultEdges"
    /\ gr_i = 0
    /\ \E j \in 1..Len(gr_ee) : gr_ee[j].isInResult
    /\ \E j \in 1..Len(gr_ee) : ~C12_AreaLabel(gr_ee[j])
    /\ \E j \in 1..Len(gr_ee) :
          /\ C12_AreaLabel(gr_ee[j])
          /\ ~C12_InteriorAreaEdge(gr_ee[j])
          /\ ~gr_ee[j].isInResult

(* C13: after cancelDuplicateResultEdges no directed edge is in the result
   together with its sym: of every pair that was both in-result both flags
   are cleared, and every edge whose sym was not in-result keeps its flag. *)
C13_NoEdgeWithItsSym ==
    gr_pc = "returned" =>
        \A j \in 1..Len(gr_ee) :
            LET s == gr_ee[j].sym
            IN  /\ ~(gr_ee[j].isInResult /\ gr_ee[s].isInResult)
                /\ (gr_hist.found[j] /\ gr_hist.found[s]) =>
                       (~gr_ee[j].isInResult /\ ~gr_ee[s].isInResult)
                /\ ~gr_hist.found[s] => (gr_ee[j].isInResult = gr_hist.found[j])

\* cancelDuplicateResultEdges has returned having cancelled one pair and kept
\* an edge whose sym was not in the result
C13_Witness ==
    /\ gr_pc = "returned"
    /\ \E j \in 1..Len(gr_ee) : gr_hist.found[j] /\ gr_hist.found[gr_ee[j].sym]
    /\ \E j \in 1..Len(gr_ee) : gr_ee[j].isInResult

====
